---- MODULE Spec2Model ----
(***************************************************************************)
(* rdflib_django: the DjangoStore triple store (store.py) over the Django  *)
(* tables Statement, LiteralStatement and ContextRef, with the term        *)
(* lookups of fields.py.                                                   *)
(*                                                                         *)
(* A term is a record [kind, value]; a table row is a record               *)
(* [id, subject, predicate, object, context_refs], context_refs being the  *)
(* rows of the many-to-many table of that statement (the identifiers of    *)
(* the ContextRef rows it points to).  A row of the Namespace table is a    *)
(* pair <<prefix, uri>>.  The backend is the one of                        *)
(* testsettings.py, sqlite3, which does not enforce foreign keys: a        *)
(* membership may point to a ContextRef row that destroy() has deleted.    *)
(***************************************************************************)
EXTENDS Integers, FiniteSets, Sequences, TLC

VARIABLES
    Statement,          \* rows of models.Statement (URI / blank-node object)
    LiteralStatement,   \* rows of models.LiteralStatement (literal object)
    ContextRef,         \* identifiers of the rows of models.ContextRef
    context_cache,      \* per store instance: the contexts in self.context_cache
    Namespace,          \* rows <<prefix, uri>> of the namespace table
    literal_field,      \* a LiteralField value: the literal, its column, the value loaded
    calls,              \* per store instance: the call in progress, statement by statement
    uri_field           \* per URIField of a model instance: the attribute, the type
                        \* column, and the value last assigned

vars == <<Statement, LiteralStatement, ContextRef, context_cache, Namespace,
          literal_field, calls, uri_field>>

-----------------------------------------------------------------------------
(* Bounds *)

\* rows the two statement tables may hold together
MaxRows == 2

\* characters of the lexical value of a literal whose storage is followed
MaxLexLen == 3

\* the store instance in use
Stores == {1}

-----------------------------------------------------------------------------
(* Terms (rdflib.term) *)

None == [kind |-> "None"]
URIRef(v) == [kind |-> "URIRef", value |-> v]
BNode(v) == [kind |-> "BNode", value |-> v]
Literal(v) == [kind |-> "Literal", value |-> v]

\* a str or unicode value
Str(v) == [kind |-> "str", value |-> v]

\* unicode(x): the content of a term or of a string
unicode(x) == x.value

DEFAULT_STORE == "Default Store"
GLOBAL_CONTEXT == BNode("Global Context")

\* the fixed bindings, (prefix, uri)
DEFAULT_NAMESPACES ==
    { <<"xml", "http://www.w3.org/XML/1998/namespace">>,
      <<"rdf", "http://www.w3.org/1999/02/22-rdf-syntax-ns#">>,
      <<"rdfs", "http://www.w3.org/2000/01/rdf-schema#">> }

\* the namespace rows seeded before the first store is opened
InitialNamespaces == DEFAULT_NAMESPACES

\* rdflib.store.VALID_STORE
VALID_STORE == 1

c1 == URIRef("context-1")
c2 == URIRef("context-2")

\* the named contexts callers pass, and every context argument
NamedContexts == {c1, c2}
ContextArgs == {None} \cup NamedContexts

\* the triples callers add, of terms of non-empty content: two subjects of
\* equal content and different kind, a triple that differs from them in every
\* position, and one with a literal object whose content is that of a URI
\* object
AddTriples ==
    { <<URIRef("a"), URIRef("p"), URIRef("x")>>,
      <<BNode("a"),  URIRef("p"), URIRef("x")>>,
      <<URIRef("b"), URIRef("q"), URIRef("y")>>,
      <<URIRef("b"), URIRef("q"), Literal("x")>> }

\* triples that are not well formed: an unbound component, a literal as
\* subject, a literal as predicate
MalformedTriples ==
    { <<None, URIRef("p"), URIRef("x")>>,
      <<URIRef("a"), URIRef("p"), None>>,
      <<Literal("a"), URIRef("p"), URIRef("x")>>,
      <<URIRef("a"), Literal("p"), URIRef("x")>> }

\* a triple whose object is the literal of the empty string
EmptyLiteralTriple == <<URIRef("b"), URIRef("q"), Literal("")>>

\* the identifier argument of DjangoStore(): left out (the default), None,
\* empty, or the name of another store
StoreIdentifiers == {Str(DEFAULT_STORE), None, Str(""), Str("HelloWorld")}

\* the prefixes and namespaces the callers of the triple store bind: a fixed
\* prefix and another, a fixed uri and another
BindPrefixes == {"rdf", "ns1"}
BindNamespaces ==
    { URIRef("http://www.w3.org/XML/1998/namespace"),
      URIRef("http://example.com/a") }

\* the prefixes and namespaces the callers of the namespace manager bind: a
\* fixed prefix and four others, a fixed uri and four others
NamespacePrefixes == {"rdf", "ns1", "ns2", "ns3", "ns4"}
NamespaceURIs ==
    { URIRef("http://www.w3.org/XML/1998/namespace"),
      URIRef("http://example.com/a"),
      URIRef("http://example.com/b"),
      URIRef("http://example.com/c"),
      URIRef("http://example.com/d") }

\* contexts(triple=None): no triple supplied
NoTriple == <<>>

\* the patterns callers query and remove with: None is the wildcard
Patterns ==
    ({None} \cup {t[1] : t \in AddTriples})
        \X ({None} \cup {t[2] : t \in AddTriples})
        \X ({None} \cup {t[3] : t \in AddTriples})

Wildcard == <<None, None, None>>

\* the patterns callers remove with: everything, one triple, or every triple
\* with a given object
RemovePatterns ==
    {Wildcard} \cup AddTriples \cup { <<None, None, t[3]>> : t \in AddTriples }

-----------------------------------------------------------------------------
(* Term lookups (fields.py) *)

\* Python truth of a pattern component: None and the empty string are false
Truthy(o) == o # None /\ o.value # ""

\* URIField.get_prep_lookup('exact', value): the content of the term; the
\* type column takes no part in the lookup
get_prep_lookup(value) == value.value

\* LiteralField.get_prep_value(value): the stored encoding of a literal
get_prep_value(value) == <<value.value, "", "">>

\* the field class of a column: store.py hands terms to subject, predicate
\* and object of both tables, and literals to the object of LiteralStatement
ColumnField(table, column) ==
    IF table = "LiteralStatement" /\ column = "object"
        THEN "LiteralField"
        ELSE "URIField"

\* URIFieldCreator.__set__ on a new model instance: a URIRef and a BNode set
\* the type column; any other string leaves it at its default, NULL
TypeColumnSet(value) == value.kind \in {"URIRef", "BNode"}

Columns == <<"subject", "predicate", "object">>

\* the lookup value of a column of a table
PrepColumn(table, column, value) ==
    IF ColumnField(table, column) = "LiteralField"
        THEN get_prep_value(value)
        ELSE get_prep_lookup(value)

-----------------------------------------------------------------------------
(* The literal column (fields.py, LiteralField), character by character *)

\* a literal with language and datatype; its lexical value, language and
\* datatype are sequences of characters, language and datatype possibly None
Lit(lex, lang, dt) ==
    [kind |-> "Literal", value |-> lex, language |-> lang, datatype |-> dt]

Chars == {"a", "^"}

\* the strings of at most n characters
Strings(n) == UNION { [1..k -> Chars] : k \in 0..n }

\* language, datatype: absent, empty, present; rdflib's Literal takes a
\* language or a datatype, not both
CodecLiterals ==
    { Lit(lex, None, None) : lex \in Strings(MaxLexLen) }
        \cup { Lit(lex, Str(x), None) : lex \in Strings(MaxLexLen), x \in {<<>>, <<"a">>} }
        \cup { Lit(lex, None, Str(x)) : lex \in Strings(MaxLexLen), x \in {<<>>, <<"a">>} }

\* Python's (x or ''): the string, or the empty one for None
OrEmpty(x) == IF x = None THEN <<>> ELSE x.value

\* Python's (x or None): the string, or None for the empty one
OrNone(x) == IF x = <<>> THEN None ELSE Str(x)

\* str.split('^^') from position i on: cur is the part being read, parts the
\* parts read
RECURSIVE SplitFrom(_, _, _, _)
SplitFrom(s1, i, cur, parts) ==
    IF i > Len(s1)
        THEN Append(parts, cur)
    ELSE IF i < Len(s1) /\ s1[i] = "^" /\ s1[i + 1] = "^"
        THEN SplitFrom(s1, i + 2, <<>>, Append(parts, cur))
    ELSE SplitFrom(s1, i + 1, Append(cur, s1[i]), parts)

split(s1) == SplitFrom(s1, 1, <<>>, <<>>)

\* LiteralField.get_prep_value: the string stored for a literal
LiteralField_get_prep_value(value) ==
    IF value.kind # "Literal"
        THEN [outcome |-> "TypeError", value |-> None]
        ELSE [outcome |-> "ok",
              value |-> Str(value.value \o <<"^", "^">> \o OrEmpty(value.language)
                               \o <<"^", "^">> \o OrEmpty(value.datatype))]

\* LiteralField.to_python: the literal of a stored string
LiteralField_to_python(value) ==
    IF value.kind = "Literal"
        THEN [outcome |-> "ok", value |-> value]
    ELSE
    LET parts == split(value.value)
    IN  IF Len(parts) # 3
            THEN [outcome |-> "ValueError", value |-> None]
        ELSE IF OrNone(parts[2]) # None /\ OrNone(parts[3]) # None
            THEN [outcome |-> "TypeError", value |-> None]
        ELSE [outcome |-> "ok",
              value |-> Lit(parts[1], OrNone(parts[2]), OrNone(parts[3]))]

\* no literal is being stored
NoField == [value |-> None, column |-> None, loaded |-> None]

\* no call is in progress
Idle == [op |-> "none", pc |-> "idle"]

-----------------------------------------------------------------------------
(* The URI column and its type column (fields.py, URIFieldCreator) *)

Num(n) == [kind |-> "int", value |-> n]

TYPE_BNODE == 1
TYPE_URIREF == 0
TYPE_GRAPH == 2

\* rdflib's Graph, by its identifier
Graph(identifier) == [kind |-> "Graph", identifier |-> identifier]

\* the URI fields of a statement
FieldNames == {"subject", "predicate"}

\* the values assigned to a URI field: terms, a blank node and a uri of equal
\* content, graphs, None, a plain string, a literal, and an object that is
\* none of these
FieldValues ==
    { URIRef("a"), BNode("a"), BNode("b"), Graph(URIRef("g")), None,
      Str("s"), Literal("l"), [kind |-> "object", value |-> "o"] }

\* a field nothing has assigned to
Unassigned == [kind |-> "unassigned"]

\* the fields of a new model instance: the column holds the default of a
\* CharField, the type column holds no value
NoURIFields ==
    [ name \in FieldNames |->
        [identifier |-> Str(""), type |-> None, assigned |-> Unassigned] ]

\* URIFieldCreator.__set__: a URIRef, a BNode and a Graph set the type
\* column, None clears it, any other string (a Literal is one) leaves it as
\* it is, and any other value raises TypeError
__set__(obj, value) ==
    IF value = None
        THEN [obj |-> [obj EXCEPT !.type = None, !.identifier = None], outcome |-> "ok"]
    ELSE IF value.kind = "URIRef"
        THEN [obj |-> [obj EXCEPT !.type = Num(TYPE_URIREF),
                                  !.identifier = Str(value.value)],
              outcome |-> "ok"]
    ELSE IF value.kind = "BNode"
        THEN [obj |-> [obj EXCEPT !.type = Num(TYPE_BNODE),
                                  !.identifier = Str(value.value)],
              outcome |-> "ok"]
    ELSE IF value.kind = "Graph"
        THEN [obj |-> [obj EXCEPT !.type = Num(TYPE_GRAPH),
                                  !.identifier = Str(value.identifier.value)],
              outcome |-> "ok"]
    ELSE IF value.kind \in {"str", "Literal"}
        THEN [obj |-> [obj EXCEPT !.identifier = Str(value.value)], outcome |-> "ok"]
    ELSE [obj |-> obj, outcome |-> "TypeError"]

\* URIFieldCreator.__get__: the term the two columns make; a blank node of
\* empty content is read as a new BNode()
__get__(obj) ==
    IF obj.type = Num(TYPE_BNODE)
        THEN IF Truthy(obj.identifier)
                 THEN [outcome |-> "ok", value |-> BNode(obj.identifier.value)]
                 ELSE [outcome |-> "ok", value |-> BNode("N1")]
    ELSE IF obj.type = Num(TYPE_URIREF)
        THEN [outcome |-> "ok", value |-> URIRef(obj.identifier.value)]
    ELSE IF obj.type = Num(TYPE_GRAPH)
        THEN [outcome |-> "ok", value |-> Graph(URIRef(obj.identifier.value))]
    ELSE [outcome |-> "ValueError", value |-> None]

-----------------------------------------------------------------------------
(* The tables (models) *)

\* the database and the calling instance's cache, as one value
Cur(st) ==
    [ Statement        |-> Statement,
      LiteralStatement |-> LiteralStatement,
      ContextRef       |-> ContextRef,
      cache            |-> context_cache[st],
      Namespace        |-> Namespace ]

Table(S, table) ==
    IF table = "Statement" THEN S.Statement ELSE S.LiteralStatement

SetTable(S, table, rows) ==
    IF table = "Statement"
        THEN [S EXCEPT !.Statement = rows]
        ELSE [S EXCEPT !.LiteralStatement = rows]

\* Statement.as_triple()
as_triple(row) == <<row.subject, row.predicate, row.object>>

AllRows(S) == S.Statement \cup S.LiteralStatement

-----------------------------------------------------------------------------
(* Context references (store.py, DjangoStore) *)

\* _get_context_ref that inserts the row it does not find
_get_context_ref_OrCreate(S, context) ==
    IF context = None
        THEN [ref |-> GLOBAL_CONTEXT, S |-> S, raised |-> "no"]
    ELSE IF context \in S.cache
        THEN [ref |-> context, S |-> S, raised |-> "no"]
    ELSE [ref |-> context,
          S |-> [S EXCEPT !.ContextRef = @ \cup {context},
                          !.cache = @ \cup {context}],
          raised |-> "no"]

\* DjangoStore._get_context_ref: the ContextRef of a context, from the cache
\* or from the table (and then cached); raises DoesNotExist when the context
\* is in neither
_get_context_ref(S, context) ==
    IF context = None
        THEN [ref |-> GLOBAL_CONTEXT, S |-> S, raised |-> "no"]
    ELSE IF context \in S.cache
        THEN [ref |-> context, S |-> S, raised |-> "no"]
    ELSE IF context \in S.ContextRef
        THEN [ref |-> context,
              S |-> [S EXCEPT !.cache = @ \cup {context}],
              raised |-> "no"]
    ELSE [ref |-> None, S |-> S, raised |-> "DoesNotExist"]

\* DjangoStore._get_or_create_context_ref: as above, but a context that is in
\* neither gets a new ContextRef row
_get_or_create_context_ref(S, context) ==
    IF context = None
        THEN [ref |-> GLOBAL_CONTEXT, S |-> S]
    ELSE IF context \in S.cache
        THEN [ref |-> context, S |-> S]
    ELSE [ref |-> context,
          S |-> [S EXCEPT !.ContextRef = @ \cup {context},
                          !.cache = @ \cup {context}]]

-----------------------------------------------------------------------------
(* Query sets (store.py) *)

\* _get_query_sets_for_object: the tables an object is looked up in
_get_query_sets_for_object(o) ==
    IF Truthy(o)
        THEN IF o.kind = "Literal"
                THEN <<"LiteralStatement">>
                ELSE <<"Statement">>
        ELSE <<"Statement", "LiteralStatement">>

\* qs.filter(<column>=value) on one row
ColumnIs(table, column, rowvalue, value) ==
    PrepColumn(table, column, rowvalue) = PrepColumn(table, column, value)

\* qs.filter(context_refs=context_ref) on one row: a row of the membership
\* table with that context's key
InContext(row, context_ref) == context_ref \in row.context_refs

\* DjangoStore._filter_query_sets: per table of query_sets, the rows the
\* filtered query set selects
_filter_query_sets(S, query_sets, pattern, context_ref) ==
    [ i \in DOMAIN query_sets |->
        { r \in Table(S, query_sets[i]) :
            /\ pattern[1] # None =>
                   ColumnIs(query_sets[i], "subject", r.subject, pattern[1])
            /\ pattern[2] # None =>
                   ColumnIs(query_sets[i], "predicate", r.predicate, pattern[2])
            /\ pattern[3] # None =>
                   ColumnIs(query_sets[i], "object", r.object, pattern[3])
            /\ context_ref # GLOBAL_CONTEXT => InContext(r, context_ref) } ]

\* the rows of all the query sets, chained
Chain(filtered) == UNION { filtered[i] : i \in DOMAIN filtered }

\* the primary key of a new row: the first one no row of the same lookup has
NewId(found) ==
    CHOOSE k \in 0..Cardinality(found) :
        /\ k \notin { r.id : r \in found }
        /\ \A j \in 0..Cardinality(found) :
               j \notin { r.id : r \in found } => k <= j

\* get_or_create with the lookup left out: a new row on every call
get_or_create_AlwaysCreate(S, table, t) ==
    LET found == { r \in Table(S, table) :
                     /\ ColumnIs(table, "subject", r.subject, t[1])
                     /\ ColumnIs(table, "predicate", r.predicate, t[2])
                     /\ ColumnIs(table, "object", r.object, t[3]) }
        new == [ id |-> NewId(found), subject |-> t[1], predicate |-> t[2],
                 object |-> t[3], context_refs |-> {} ]
    IN  [row |-> new, S |-> SetTable(S, table, Table(S, table) \cup {new}),
         raised |-> "no"]

\* Django's query_set.get_or_create(subject=, predicate=, object=): the row
\* the lookup finds, or a new row with no membership; the insert of a row
\* with a NULL type column violates NOT NULL and raises IntegrityError
get_or_create(S, table, t) ==
    LET found == { r \in Table(S, table) :
                     /\ ColumnIs(table, "subject", r.subject, t[1])
                     /\ ColumnIs(table, "predicate", r.predicate, t[2])
                     /\ ColumnIs(table, "object", r.object, t[3]) }
        new == [ id |-> NewId(found), subject |-> t[1], predicate |-> t[2],
                 object |-> t[3], context_refs |-> {} ]
        null_type == \E i \in 1..3 :
                         /\ ColumnField(table, Columns[i]) = "URIField"
                         /\ ~TypeColumnSet(t[i])
    IN  IF found = {} /\ null_type
            THEN [row |-> None, S |-> S, raised |-> "IntegrityError"]
        ELSE IF found = {}
            THEN [row |-> new, S |-> SetTable(S, table, Table(S, table) \cup {new}),
                  raised |-> "no"]
        ELSE IF Cardinality(found) = 1
            THEN [row |-> CHOOSE r \in found : TRUE, S |-> S, raised |-> "no"]
        ELSE [row |-> None, S |-> S, raised |-> "MultipleObjectsReturned"]

\* statement.context_refs.all() / .count(): the ContextRef rows the
\* memberships of a row join to
RelatedContexts(S, refs) == refs \cap S.ContextRef

-----------------------------------------------------------------------------
(* The store operations (store.py, DjangoStore).  Each takes the database    *)
(* and the caller's cache S and gives the new S, the outcome ("ok" or the    *)
(* exception raised) and the value returned or the items yielded.            *)

\* rdflib.store.NO_STORE
NO_STORE == 0 - 1

\* open that reports a missing store unless asked to create it
open_NoStoreUnlessCreate(S, configuration, create) ==
    [S |-> S, outcome |-> "ok",
     value |-> IF create THEN VALID_STORE ELSE NO_STORE]

\* open that reports a missing store once the tables are empty
open_NoStoreWhenEmpty(S, configuration, create) ==
    [S |-> S, outcome |-> "ok",
     value |-> IF S.Statement \cup S.LiteralStatement = {} /\ ~create
                  THEN NO_STORE ELSE VALID_STORE]

\* DjangoStore.open: the one store is always there
open(S, configuration, create) ==
    [S |-> S, outcome |-> "ok", value |-> VALID_STORE]

\* the constructor without the check of the identifier
__init___AnyIdentifier(S, configuration, identifier) ==
    [S |-> [S EXCEPT !.cache = {}],
     outcome |-> "ok",
     value |-> [identifier |-> DEFAULT_STORE,
                default_context |-> GLOBAL_CONTEXT,
                opened |-> VALID_STORE]]

\* DjangoStore.__init__: the instance made, with an empty cache, or the
\* exception raised; the caller then has no new instance
__init__(S, configuration, identifier) ==
    IF Truthy(identifier) /\ identifier # Str(DEFAULT_STORE)
        THEN [S |-> S, outcome |-> "ValueError", value |-> None]
    ELSE IF GLOBAL_CONTEXT \notin S.ContextRef
        THEN [S |-> S, outcome |-> "DoesNotExist", value |-> None]
    ELSE [S |-> [S EXCEPT !.cache = {}],
          outcome |-> "ok",
          value |-> [identifier |-> DEFAULT_STORE,
                     default_context |-> GLOBAL_CONTEXT,
                     opened |-> open(S, configuration, FALSE).value]]

\* isinstance(x, Identifier)
IsIdentifier(x) == x.kind \in {"URIRef", "BNode", "Literal"}

\* add without the assertion on quoted
add_IgnoreQuoted(S, t, context, quoted) ==
    IF ~IsIdentifier(t[1]) \/ ~IsIdentifier(t[2]) \/ ~IsIdentifier(t[3])
        THEN [S |-> S, outcome |-> "AssertionError", value |-> None]
    ELSE
    LET query_set == _get_query_sets_for_object(t[3])[1]
        goc == get_or_create(S, query_set, t)
    IN  IF goc.raised # "no"
            THEN [S |-> S, outcome |-> goc.raised, value |-> None]
        ELSE
        LET statement == goc.row
            cr == _get_or_create_context_ref(goc.S, context)
            context_ref == cr.ref
            S2 == cr.S
            linked == [statement EXCEPT !.context_refs = @ \cup {context_ref}]
        IN  IF context_ref \notin RelatedContexts(S2, statement.context_refs)
                THEN [S |-> SetTable(S2, query_set,
                                (Table(S2, query_set) \ {statement}) \cup {linked}),
                      outcome |-> "ok", value |-> None]
                ELSE [S |-> S2, outcome |-> "ok", value |-> None]

\* DjangoStore.add
add(S, t, context, quoted) ==
    IF ~IsIdentifier(t[1]) \/ ~IsIdentifier(t[2]) \/ ~IsIdentifier(t[3]) \/ quoted
        THEN [S |-> S, outcome |-> "AssertionError", value |-> None]
    ELSE
    LET query_set == _get_query_sets_for_object(t[3])[1]
        goc == get_or_create(S, query_set, t)
    IN  IF goc.raised # "no"
            THEN [S |-> S, outcome |-> goc.raised, value |-> None]
        ELSE
        LET statement == goc.row
            cr == _get_or_create_context_ref(goc.S, context)
            context_ref == cr.ref
            S2 == cr.S
            linked == [statement EXCEPT !.context_refs = @ \cup {context_ref}]
        IN  IF context_ref \notin RelatedContexts(S2, statement.context_refs)
                THEN [S |-> SetTable(S2, query_set,
                                (Table(S2, query_set) \ {statement}) \cup {linked}),
                      outcome |-> "ok", value |-> None]
                ELSE [S |-> S2, outcome |-> "ok", value |-> None]

\* the loop body with the default-context case left out: a row goes only
\* when no context is left
RemoveFrom_OnlyWhenEmpty(S, rows, matched, context_ref) ==
    (rows \ matched) \cup
    { [r EXCEPT !.context_refs = @ \ {context_ref}] :
        r \in { m \in matched :
                  RelatedContexts(S, m.context_refs \ {context_ref}) # {} } }

\* the loop body of DjangoStore.remove on one row: the membership goes, and
\* the row with it when the context is the default one or no context is left
RemoveFrom(S, rows, matched, context_ref) ==
    (rows \ matched) \cup
    { [r EXCEPT !.context_refs = @ \ {context_ref}] :
        r \in { m \in matched :
                  ~ ( \/ context_ref = GLOBAL_CONTEXT
                      \/ RelatedContexts(S, m.context_refs \ {context_ref}) = {} ) } }

\* DjangoStore.remove
remove(S, pattern, context) ==
    LET g == _get_context_ref(S, context)
    IN  IF g.raised = "DoesNotExist"
            THEN [S |-> S, outcome |-> "ok", value |-> None]
        ELSE
        LET context_ref == g.ref
            S1 == g.S
            query_sets == _get_query_sets_for_object(pattern[3])
            filtered == _filter_query_sets(S1, query_sets, pattern, context_ref)
            matched == Chain(filtered)
        IN  [S |-> [S1 EXCEPT
                      !.Statement =
                          RemoveFrom(S1, @, matched \cap @, context_ref),
                      !.LiteralStatement =
                          RemoveFrom(S1, @, matched \cap @, context_ref)],
             outcome |-> "ok", value |-> None]

\* triples that pairs each triple with the contexts its row is stored under
triples_StoredContext(S, pattern, context) ==
    LET g == _get_context_ref(S, context)
    IN  IF g.raised = "DoesNotExist"
            THEN [S |-> S, outcome |-> "DoesNotExist", value |-> {}]
        ELSE
        LET context_ref == g.ref
            query_sets == _get_query_sets_for_object(pattern[3])
            filtered == _filter_query_sets(g.S, query_sets, pattern, context_ref)
        IN  [S |-> g.S, outcome |-> "ok",
             value |-> UNION { { <<as_triple(r), c>> : c \in r.context_refs } :
                               r \in Chain(filtered) }]

\* DjangoStore.triples: the items yielded, each the triple of a row paired
\* with the context argument
triples(S, pattern, context) ==
    LET g == _get_context_ref(S, context)
    IN  IF g.raised = "DoesNotExist"
            THEN [S |-> S, outcome |-> "DoesNotExist", value |-> {}]
        ELSE
        LET context_ref == g.ref
            query_sets == _get_query_sets_for_object(pattern[3])
            filtered == _filter_query_sets(g.S, query_sets, pattern, context_ref)
        IN  [S |-> g.S, outcome |-> "ok",
             value |-> { <<as_triple(r), context>> : r \in Chain(filtered) }]

\* __len__ without the context filter: the rows of the whole store
__len___Unfiltered(S, context) ==
    LET g == _get_context_ref(S, context)
    IN  IF g.raised = "DoesNotExist"
            THEN [S |-> S, outcome |-> "DoesNotExist", value |-> None]
        ELSE
        LET query_sets == _get_query_sets_for_object(None)
            counts == [ i \in DOMAIN query_sets |->
                          Cardinality(Table(g.S, query_sets[i])) ]
        IN  [S |-> g.S, outcome |-> "ok", value |-> counts[1] + counts[2]]

\* DjangoStore.__len__
__len__(S, context) ==
    LET g == _get_context_ref(S, context)
    IN  IF g.raised = "DoesNotExist"
            THEN [S |-> S, outcome |-> "DoesNotExist", value |-> None]
        ELSE
        LET context_ref == g.ref
            query_sets == _get_query_sets_for_object(None)
            counts == [ i \in DOMAIN query_sets |->
                          Cardinality({ r \in Table(g.S, query_sets[i]) :
                              context_ref # GLOBAL_CONTEXT => InContext(r, context_ref) }) ]
        IN  [S |-> g.S, outcome |-> "ok", value |-> counts[1] + counts[2]]

\* DjangoStore.contexts: the identifier of every ContextRef row; the triple
\* argument is not read
contexts(S, triple) ==
    [S |-> S, outcome |-> "ok", value |-> S.ContextRef]

\* destroy without the exclusion of the default context
destroy_DeleteAll(S) ==
    [S |-> [S EXCEPT !.Statement = {}, !.LiteralStatement = {}, !.ContextRef = {}],
     outcome |-> "ok", value |-> None]

\* destroy that leaves the literal statements
destroy_KeepLiteralStatements(S) ==
    [S |-> [S EXCEPT !.Statement = {}, !.ContextRef = @ \cap {GLOBAL_CONTEXT}],
     outcome |-> "ok", value |-> None]

\* destroy that clears the bindings callers made, too
destroy_ClearNamespaces(S) ==
    [S |-> [S EXCEPT !.Statement = {},
                     !.LiteralStatement = {},
                     !.ContextRef = @ \cap {GLOBAL_CONTEXT},
                     !.Namespace = @ \cap DEFAULT_NAMESPACES],
     outcome |-> "ok", value |-> None]

\* DjangoStore.destroy
destroy(S) ==
    [S |-> [S EXCEPT !.Statement = {},
                     !.LiteralStatement = {},
                     !.ContextRef = @ \cap {GLOBAL_CONTEXT}],
     outcome |-> "ok", value |-> None]

-----------------------------------------------------------------------------
(* Namespaces (store.py, DjangoStore, over models.NamespaceModel) *)

\* save() without the unique constraint on uri
Namespace_save_UriNotUnique(N, p, uri) ==
    [N |-> { n \in N : n[1] # p } \cup {<<p, uri>>}, raised |-> "no"]

\* Model.save() of a namespace row: prefix is the primary key, so a row with
\* that prefix is updated and any other is inserted; uri is unique
Namespace_save(N, p, uri) ==
    LET others == { n \in N : n[1] # p }
    IN  IF \E n \in others : n[2] = uri
            THEN [N |-> N, raised |-> "IntegrityError"]
            ELSE [N |-> others \cup {<<p, uri>>}, raised |-> "no"]

\* bind that protects the fixed prefixes only
bind_PrefixOnly(S, p, ns) ==
    IF \E d \in DEFAULT_NAMESPACES : d[1] = p
        THEN [S |-> S, outcome |-> "ok", value |-> None]
    ELSE
    LET uri == unicode(ns)
        first == Namespace_save(S.Namespace, p, uri)
        kept == { n \in S.Namespace : n[1] # p /\ n[2] # uri }
        second == Namespace_save(kept, p, uri)
    IN  IF first.raised = "no"
            THEN [S |-> [S EXCEPT !.Namespace = first.N],
                  outcome |-> "ok", value |-> None]
            ELSE [S |-> [S EXCEPT !.Namespace = second.N],
                  outcome |-> IF second.raised = "no" THEN "ok" ELSE second.raised,
                  value |-> None]

\* bind that protects the fixed uris only
bind_UriOnly(S, p, ns) ==
    IF \E d \in DEFAULT_NAMESPACES : unicode(Str(d[2])) = unicode(ns)
        THEN [S |-> S, outcome |-> "ok", value |-> None]
    ELSE
    LET uri == unicode(ns)
        first == Namespace_save(S.Namespace, p, uri)
        kept == { n \in S.Namespace : n[1] # p /\ n[2] # uri }
        second == Namespace_save(kept, p, uri)
    IN  IF first.raised = "no"
            THEN [S |-> [S EXCEPT !.Namespace = first.N],
                  outcome |-> "ok", value |-> None]
            ELSE [S |-> [S EXCEPT !.Namespace = second.N],
                  outcome |-> IF second.raised = "no" THEN "ok" ELSE second.raised,
                  value |-> None]

\* bind that deletes the prior binding of the prefix only
bind_NoDeleteUri(S, p, ns) ==
    IF \E d \in DEFAULT_NAMESPACES : d[1] = p \/ unicode(Str(d[2])) = unicode(ns)
        THEN [S |-> S, outcome |-> "ok", value |-> None]
    ELSE
    LET uri == unicode(ns)
        first == Namespace_save(S.Namespace, p, uri)
        kept == { n \in S.Namespace : n[1] # p }
        second == Namespace_save(kept, p, uri)
    IN  IF first.raised = "no"
            THEN [S |-> [S EXCEPT !.Namespace = first.N],
                  outcome |-> "ok", value |-> None]
            ELSE [S |-> [S EXCEPT !.Namespace = second.N],
                  outcome |-> IF second.raised = "no" THEN "ok" ELSE second.raised,
                  value |-> None]

\* DjangoStore.bind
bind(S, p, ns) ==
    IF \E d \in DEFAULT_NAMESPACES : d[1] = p \/ unicode(Str(d[2])) = unicode(ns)
        THEN [S |-> S, outcome |-> "ok", value |-> None]
    ELSE
    LET uri == unicode(ns)
        first == Namespace_save(S.Namespace, p, uri)
        kept == { n \in S.Namespace : n[1] # p /\ n[2] # uri }
        second == Namespace_save(kept, p, uri)
    IN  IF first.raised = "no"
            THEN [S |-> [S EXCEPT !.Namespace = first.N],
                  outcome |-> "ok", value |-> None]
            ELSE [S |-> [S EXCEPT !.Namespace = second.N],
                  outcome |-> IF second.raised = "no" THEN "ok" ELSE second.raised,
                  value |-> None]

\* prefix that looks its argument up in the prefix column
prefix_ByPrefixColumn(S, ns) ==
    LET found == { n \in S.Namespace : n[1] = unicode(ns) }
    IN  IF found = {}
            THEN [S |-> S, outcome |-> "ok", value |-> None]
            ELSE [S |-> S, outcome |-> "ok",
                  value |-> Str((CHOOSE n \in found : TRUE)[1])]

\* DjangoStore.prefix: the prefix bound to a uri, or None
prefix(S, ns) ==
    LET found == { n \in S.Namespace : n[2] = unicode(ns) }
    IN  IF found = {}
            THEN [S |-> S, outcome |-> "ok", value |-> None]
        ELSE IF Cardinality(found) = 1
            THEN [S |-> S, outcome |-> "ok",
                  value |-> Str((CHOOSE n \in found : TRUE)[1])]
        ELSE [S |-> S, outcome |-> "MultipleObjectsReturned", value |-> None]

\* DjangoStore.namespace: the uri bound to a prefix, or None
namespace(S, p) ==
    LET found == { n \in S.Namespace : n[1] = p }
    IN  IF found = {}
            THEN [S |-> S, outcome |-> "ok", value |-> None]
        ELSE IF Cardinality(found) = 1
            THEN [S |-> S, outcome |-> "ok",
                  value |-> Str((CHOOSE n \in found : TRUE)[2])]
        ELSE [S |-> S, outcome |-> "MultipleObjectsReturned", value |-> None]

\* DjangoStore.namespaces
namespaces(S) ==
    [S |-> S, outcome |-> "ok", value |-> S.Namespace]

-----------------------------------------------------------------------------
(* The state machine: one store instance and its callers *)

\* DjangoStore.__init__: the default context row exists, the cache is empty
Init ==
    /\ Statement = {}
    /\ LiteralStatement = {}
    /\ ContextRef = {GLOBAL_CONTEXT}
    /\ context_cache = [st \in Stores |-> {}]
    /\ Namespace = InitialNamespaces
    /\ literal_field = NoField
    /\ calls = [st \in Stores |-> Idle]
    /\ uri_field = NoURIFields

\* the effect of a call of instance st with result r; the outcome and the
\* value go to the caller
Apply(st, r) ==
    /\ Statement' = r.S.Statement
    /\ LiteralStatement' = r.S.LiteralStatement
    /\ ContextRef' = r.S.ContextRef
    /\ context_cache' = [context_cache EXCEPT ![st] = r.S.cache]
    /\ Namespace' = r.S.Namespace
    /\ UNCHANGED <<literal_field, calls, uri_field>>

\* DjangoStore(identifier=...): a new instance over the same database
\* replaces the one in use; when the constructor raises, the one in use stays
DoConstruct(st) ==
    \E identifier \in StoreIdentifiers :
        Apply(st, __init__(Cur(st), None, identifier))

DoOpen(st) ==
    \E create \in BOOLEAN :
        Apply(st, open(Cur(st), None, create))

DoBind(st) ==
    \E p \in BindPrefixes, ns \in BindNamespaces :
        Apply(st, bind(Cur(st), p, ns))

\* prefix(), namespace() and namespaces() read the table
DoNamespaces(st) ==
    Apply(st, namespaces(Cur(st)))

DoAdd(st) ==
    \E t \in AddTriples \cup MalformedTriples \cup {EmptyLiteralTriple},
       context \in ContextArgs,
       quoted \in BOOLEAN :
        LET r == add(Cur(st), t, context, quoted)
        IN  /\ Cardinality(AllRows(r.S)) <= MaxRows
            /\ Apply(st, r)

DoRemove(st) ==
    \E pattern \in RemovePatterns, context \in ContextArgs :
        Apply(st, remove(Cur(st), pattern, context))

\* the items yielded are triples(Cur(st), pattern, context).value; what the
\* call leaves behind (the cache entry, the outcome) is the same for every
\* pattern
DoTriples(st) ==
    \E context \in ContextArgs :
        Apply(st, triples(Cur(st), Wildcard, context))

DoLen(st) ==
    \E context \in ContextArgs :
        Apply(st, __len__(Cur(st), context))

DoContexts(st) ==
    \E triple \in {NoTriple} \cup AddTriples :
        Apply(st, contexts(Cur(st), triple))

DoDestroy(st) ==
    Apply(st, destroy(Cur(st)))

Next ==
    \E st \in Stores :
        \/ DoConstruct(st)
        \/ DoAdd(st)
        \/ DoRemove(st)
        \/ DoTriples(st)
        \/ DoLen(st)
        \/ DoContexts(st)
        \/ DoDestroy(st)
        \/ DoOpen(st)
        \/ DoBind(st)
        \/ DoNamespaces(st)

Spec == Init /\ [][Next]_vars

\* the calls that write the database or the cache: construction, add, remove,
\* destroy, bind, and the read that resolves a context
NextStore ==
    \E st \in Stores :
        \/ DoConstruct(st)
        \/ DoAdd(st)
        \/ DoRemove(st)
        \/ DoTriples(st)
        \/ DoDestroy(st)
        \/ DoBind(st)

SpecStore == Init /\ [][NextStore]_vars

\* the namespace manager alone: callers that bind, read and destroy
DoBindNamespace(st) ==
    \E p \in NamespacePrefixes, ns \in NamespaceURIs :
        Apply(st, bind(Cur(st), p, ns))

NextNamespaces ==
    \E st \in Stores :
        \/ DoBindNamespace(st)
        \/ DoNamespaces(st)
        \/ DoDestroy(st)

SpecNamespaces == Init /\ [][NextNamespaces]_vars

-----------------------------------------------------------------------------
(* The literal column alone: a literal is saved and loaded again *)

InitLiteral ==
    /\ Statement = {}
    /\ LiteralStatement = {}
    /\ ContextRef = {GLOBAL_CONTEXT}
    /\ context_cache = [st \in Stores |-> {}]
    /\ Namespace = InitialNamespaces
    /\ literal_field \in { [NoField EXCEPT !.value = l] : l \in CodecLiterals }
    /\ calls = [st \in Stores |-> Idle]
    /\ uri_field = NoURIFields

\* the row is saved: the column takes get_prep_value of the literal
SaveLiteral ==
    /\ literal_field.column = None
    /\ LiteralField_get_prep_value(literal_field.value).outcome = "ok"
    /\ literal_field' =
           [literal_field EXCEPT
               !.column = LiteralField_get_prep_value(literal_field.value).value]
    /\ UNCHANGED <<Statement, LiteralStatement, ContextRef, context_cache,
                   Namespace, calls, uri_field>>

\* the row is loaded: the attribute takes to_python of the column, or the
\* load raises
LoadLiteral ==
    /\ literal_field.column # None
    /\ literal_field.loaded = None
    /\ literal_field' =
           [literal_field EXCEPT !.loaded = LiteralField_to_python(literal_field.column)]
    /\ UNCHANGED <<Statement, LiteralStatement, ContextRef, context_cache,
                   Namespace, calls, uri_field>>

NextLiteral == SaveLiteral \/ LoadLiteral

SpecLiteral == InitLiteral /\ [][NextLiteral]_vars

\* assignments to the URI fields of one model instance, and reads
SetField ==
    /\ \E name \in FieldNames, value \in FieldValues :
           LET r == __set__(uri_field[name], value)
           IN  uri_field' =
                   [uri_field EXCEPT
                       ![name] = IF r.outcome = "ok"
                                     THEN [r.obj EXCEPT !.assigned = value]
                                     ELSE r.obj]
    /\ UNCHANGED <<Statement, LiteralStatement, ContextRef, context_cache,
                   Namespace, literal_field, calls>>

GetField ==
    /\ \E name \in FieldNames : __get__(uri_field[name]).outcome \in {"ok", "ValueError"}
    /\ UNCHANGED vars

NextField == SetField \/ GetField

SpecField == Init /\ [][NextField]_vars

-----------------------------------------------------------------------------
(* The import commands (management/commands/rdf_import.py, rdf_parse.py):    *)
(* parse a source into an intermediate graph, then add its triples to a      *)
(* graph of the store, in one transaction.                                   *)

\* the blank contexts BNode() can give to an import with no --context
MaxBlank == 1

BlankNames == <<"N1", "N2", "N3">>

Commands == {"rdf_import", "rdf_parse"}

\* the sources named on the command line: one that does not parse, and
\* documents of one triple, of two, and of one with an empty literal
Sources == {"bad", "one", "two", "empty-literal"}

\* intermediate.parse(source): the triples of the document, or the parser's
\* exception
parse(source) ==
    IF source = "one"
        THEN [outcome |-> "ok", value |-> { <<URIRef("a"), URIRef("p"), URIRef("x")>> }]
    ELSE IF source = "two"
        THEN [outcome |-> "ok",
              value |-> { <<URIRef("a"), URIRef("p"), URIRef("x")>>,
                          <<URIRef("b"), URIRef("q"), Literal("x")>> }]
    ELSE IF source = "empty-literal"
        THEN [outcome |-> "ok",
              value |-> { <<URIRef("a"), URIRef("p"), URIRef("x")>>, EmptyLiteralTriple }]
    ELSE [outcome |-> "Exception", value |-> {}]

\* the command lines: no argument or a source; --store and --context left
\* out or given
CommandArgs == {<<>>} \cup { <<source>> : source \in Sources }
CommandOptions ==
    [ store : {None, Str("HelloWorld")}, context : {None, Str("")} \cup { Str(unicode(c)) : c \in NamedContexts } ]

\* the orders 'for triple in intermediate' can take
Orders(set) ==
    { order \in [1..Cardinality(set) -> set] :
        \A i, j \in 1..Cardinality(set) : i # j => order[i] # order[j] }

\* what a run does not fix: the identifier BNode() makes and the order of
\* iteration
Runs(S, args) ==
    { [bnode |-> BNode(BlankNames[k]), order |-> order] :
        k \in { n \in 1..MaxBlank :
                  \A c \in S.ContextRef : c.value # BlankNames[n] },
        order \in Orders(IF args = <<>> THEN {} ELSE parse(args[1]).value) }

\* the loop 'for triple in intermediate: graph.add(triple)'; Graph.add calls
\* store.add(triple, graph, quoted=False)
RECURSIVE AddEach(_, _, _)
AddEach(S, order, identifier) ==
    IF order = <<>>
        THEN [S |-> S, outcome |-> "ok", value |-> None]
    ELSE LET r == add(S, Head(order), identifier, FALSE)
         IN  IF r.outcome # "ok" THEN r ELSE AddEach(r.S, Tail(order), identifier)

\* Command.handle without the parse before the store: the triples are added
\* as they are read, and a parse failure comes after them
handle_AddWhileParsing(S, command, args, options, run) ==
    IF args = <<>>
        THEN [S |-> S, outcome |-> "CommandError", value |-> None]
    ELSE
    LET made == IF command = "rdf_parse" /\ Truthy(options.store)
                    THEN __init__(S, None, options.store)
                    ELSE __init__(S, options.store, Str(DEFAULT_STORE))
        identifier == IF Truthy(options.context)
                          THEN URIRef(unicode(options.context))
                      ELSE IF command = "rdf_import"
                          THEN URIRef(unicode(run.bnode))
                      ELSE run.bnode
        partial == { <<URIRef("a"), URIRef("p"), URIRef("x")>> }
        added == AddEach(made.S,
                         IF parse(args[1]).outcome = "ok"
                             THEN run.order
                             ELSE CHOOSE order \in Orders(partial) : TRUE,
                         identifier)
    IN  IF made.outcome # "ok"
            THEN [S |-> S, outcome |-> made.outcome, value |-> None]
        ELSE IF added.outcome # "ok"
            THEN [S |-> S, outcome |-> added.outcome, value |-> None]
        ELSE IF parse(args[1]).outcome # "ok"
            THEN [S |-> [added.S EXCEPT !.cache = S.cache],
                  outcome |-> "CommandError", value |-> None]
        ELSE [S |-> [added.S EXCEPT !.cache = S.cache], outcome |-> "ok", value |-> None]

\* Command.handle of rdf_import and rdf_parse, under commit_on_success: an
\* exception rolls the transaction back.  The command makes a store instance
\* of its own; the cache of the caller's is not touched
handle(S, command, args, options, run) ==
    IF args = <<>>
        THEN [S |-> S, outcome |-> "CommandError", value |-> None]
    ELSE IF parse(args[1]).outcome # "ok"
        THEN [S |-> S, outcome |-> "CommandError", value |-> None]
    ELSE
    LET made == IF command = "rdf_parse" /\ Truthy(options.store)
                    THEN __init__(S, None, options.store)
                    ELSE __init__(S, options.store, Str(DEFAULT_STORE))
        identifier == IF Truthy(options.context)
                          THEN URIRef(unicode(options.context))
                      ELSE IF command = "rdf_import"
                          THEN URIRef(unicode(run.bnode))
                      ELSE run.bnode
        added == AddEach(made.S, run.order, identifier)
    IN  IF made.outcome # "ok"
            THEN [S |-> S, outcome |-> made.outcome, value |-> None]
        ELSE IF added.outcome # "ok"
            THEN [S |-> S, outcome |-> added.outcome, value |-> None]
        ELSE [S |-> [added.S EXCEPT !.cache = S.cache], outcome |-> "ok", value |-> None]

DoHandle(st) ==
    \E command \in Commands, args \in CommandArgs, options \in CommandOptions :
        \E run \in Runs(Cur(st), args) :
            LET r == handle(Cur(st), command, args, options, run)
            IN  /\ Cardinality(AllRows(r.S)) <= MaxRows
                /\ Apply(st, r)

\* a caller of the store next to the commands: it removes and destroys
NextImport ==
    \E st \in Stores :
        \/ DoHandle(st)
        \/ DoRemove(st)
        \/ DoDestroy(st)

SpecImport == Init /\ [][NextImport]_vars

-----------------------------------------------------------------------------
(* Two store instances over one database.  Each model call (save, delete,    *)
(* get, insert) is one statement of the database and commits on its own;     *)
(* the statements of the two instances interleave.                           *)

Instances == {1, 2}

\* the prefixes and namespaces the two instances bind
ConcurrentPrefixes == {"rdf", "ns1", "ns2"}
ConcurrentURIs == { URIRef("http://example.com/a"), URIRef("http://example.com/b") }

InitConcurrent ==
    /\ Statement = {}
    /\ LiteralStatement = {}
    /\ ContextRef = {GLOBAL_CONTEXT}
    /\ context_cache = [i \in Instances |-> {}]
    /\ Namespace = InitialNamespaces
    /\ literal_field = NoField
    /\ calls = [i \in Instances |-> Idle]
    /\ uri_field = NoURIFields

\* a call that has returned or raised
Done(c, outcome) == [c EXCEPT !.pc = "done", !.outcome = outcome]

\* the bind calls that have deleted and not yet inserted
BindInProgress(c) ==
    c.op = "bind" /\ c.pc \in {"delete_prefix", "delete_uri", "save"}

\* instance i has written the namespace table: the binds in progress of the
\* others are no longer alone
Written(cs, i) ==
    [ j \in DOMAIN cs |->
        IF j # i /\ BindInProgress(cs[j]) THEN [cs[j] EXCEPT !.alone = FALSE] ELSE cs[j] ]

\* bind, lines 246-253: the fixed bindings are skipped; the first save()
\* either inserts or raises IntegrityError
BindSave(i) ==
    /\ calls[i] = Idle
    /\ \E p \in ConcurrentPrefixes, ns \in ConcurrentURIs :
           LET c == [op |-> "bind", pc |-> "save", prefix |-> p, uri |-> unicode(ns),
                     outcome |-> "pending", before |-> Namespace, alone |-> TRUE]
               first == Namespace_save(Namespace, p, unicode(ns))
           IN  IF \E d \in DEFAULT_NAMESPACES :
                      d[1] = p \/ unicode(Str(d[2])) = unicode(ns)
                   THEN /\ calls' = [calls EXCEPT ![i] = Done(c, "ok")]
                        /\ UNCHANGED Namespace
               ELSE IF first.raised = "no"
                   THEN /\ calls' = [Written(calls, i) EXCEPT ![i] = Done(c, "ok")]
                        /\ Namespace' = first.N
               ELSE /\ calls' = [calls EXCEPT ![i] = [c EXCEPT !.pc = "delete_prefix"]]
                    /\ UNCHANGED Namespace
    /\ UNCHANGED <<Statement, LiteralStatement, ContextRef, context_cache,
                   literal_field, uri_field>>

\* bind, line 254: Namespace.objects.filter(prefix=prefix).delete()
BindDeletePrefix(i) ==
    /\ calls[i].op = "bind" /\ calls[i].pc = "delete_prefix"
    /\ Namespace' = { n \in Namespace : n[1] # calls[i].prefix }
    /\ calls' = [Written(calls, i) EXCEPT ![i] = [calls[i] EXCEPT !.pc = "delete_uri"]]
    /\ UNCHANGED <<Statement, LiteralStatement, ContextRef, context_cache,
                   literal_field, uri_field>>

\* bind, line 255: Namespace.objects.filter(uri=namespace).delete()
BindDeleteUri(i) ==
    /\ calls[i].op = "bind" /\ calls[i].pc = "delete_uri"
    /\ Namespace' = { n \in Namespace : n[2] # calls[i].uri }
    /\ calls' = [Written(calls, i) EXCEPT ![i] = [calls[i] EXCEPT !.pc = "save"]]
    /\ UNCHANGED <<Statement, LiteralStatement, ContextRef, context_cache,
                   literal_field, uri_field>>

\* bind, line 256: the second save(), outside the try: an IntegrityError
\* goes to the caller
BindSaveAgain(i) ==
    /\ calls[i].op = "bind" /\ calls[i].pc = "save"
    /\ LET second == Namespace_save(Namespace, calls[i].prefix, calls[i].uri)
       IN  /\ Namespace' = second.N
           /\ calls' = [Written(calls, i) EXCEPT
                           ![i] = Done(calls[i],
                                       IF second.raised = "no" THEN "ok" ELSE second.raised)]
    /\ UNCHANGED <<Statement, LiteralStatement, ContextRef, context_cache,
                   literal_field, uri_field>>

\* the caller has the result and is free to call again
Return(i) ==
    /\ calls[i].pc = "done"
    /\ calls' = [calls EXCEPT ![i] = Idle]
    /\ UNCHANGED <<Statement, LiteralStatement, ContextRef, context_cache,
                   Namespace, literal_field, uri_field>>

\* namespaces() of an instance with no call in progress: it reads the table
\* as it is
ReadNamespaces(i) ==
    /\ calls[i] = Idle
    /\ namespaces(Cur(i)).outcome = "ok"
    /\ UNCHANGED vars

NextBind ==
    \E i \in Instances :
        \/ BindSave(i)
        \/ BindDeletePrefix(i)
        \/ BindDeleteUri(i)
        \/ BindSaveAgain(i)
        \/ Return(i)
        \/ ReadNamespaces(i)

SpecBind == InitConcurrent /\ [][NextBind]_vars

\* the triples and contexts the two instances add
ConcurrentTriples ==
    { <<URIRef("a"), URIRef("p"), URIRef("b")>>,
      <<URIRef("a"), URIRef("p"), Literal("x")>> }
ConcurrentContexts == ContextArgs

\* the database and the cache of instance i after a statement of its call,
\* and the call's new position
Commit(i, S, c) ==
    /\ Statement' = S.Statement
    /\ LiteralStatement' = S.LiteralStatement
    /\ ContextRef' = S.ContextRef
    /\ context_cache' = [context_cache EXCEPT ![i] = S.cache]
    /\ Namespace' = S.Namespace
    /\ calls' = [calls EXCEPT ![i] = c]
    /\ UNCHANGED <<literal_field, uri_field>>

\* the rows get(subject=, predicate=, object=) finds
Lookup(S, table, t) ==
    { r \in Table(S, table) :
        /\ ColumnIs(table, "subject", r.subject, t[1])
        /\ ColumnIs(table, "predicate", r.predicate, t[2])
        /\ ColumnIs(table, "object", r.object, t[3]) }

\* the row of the statement a call holds, as the database has it now: none
\* when another instance has deleted it
Held(S, table, row) ==
    { r \in Table(S, table) : r.id = row.id /\ as_triple(r) = row.triple }

\* the memberships the database has for that statement
HeldRefs(S, table, row) == UNION { r.context_refs : r \in Held(S, table, row) }

\* add, lines 168-174: the assertions, the table of the object, and the
\* get() of get_or_create
AddGet(i) ==
    /\ calls[i] = Idle
    /\ \E t \in ConcurrentTriples, context \in ConcurrentContexts :
           LET table == _get_query_sets_for_object(t[3])[1]
               found == Lookup(Cur(i), table, t)
               c == [op |-> "add", pc |-> "create", t |-> t, context |-> context,
                     table |-> table, row |-> None, context_ref |-> None,
                     outcome |-> "pending"]
           IN  IF ~IsIdentifier(t[1]) \/ ~IsIdentifier(t[2]) \/ ~IsIdentifier(t[3])
                   THEN Commit(i, Cur(i), Done(c, "AssertionError"))
               ELSE IF found = {}
                   THEN Commit(i, Cur(i), c)
               ELSE IF Cardinality(found) = 1
                   THEN LET r == CHOOSE r \in found : TRUE
                        IN  Commit(i, Cur(i),
                                   [c EXCEPT !.pc = "context_ref",
                                             !.row = [id |-> r.id, triple |-> as_triple(r)]])
               ELSE Commit(i, Cur(i), Done(c, "MultipleObjectsReturned"))

\* add, lines 174-178: the create() of get_or_create.  A row another
\* instance has inserted since the get() makes the insert violate the
\* uniqueness of (subject, predicate, object) (unique_together in
\* models.py); get_or_create catches the IntegrityError and gets that row
AddCreate(i) ==
    /\ calls[i].op = "add" /\ calls[i].pc = "create"
    /\ LET goc == get_or_create(Cur(i), calls[i].table, calls[i].t)
       IN  IF goc.raised # "no"
               THEN Commit(i, Cur(i), Done(calls[i], goc.raised))
               ELSE Commit(i, goc.S,
                           [calls[i] EXCEPT
                               !.pc = "context_ref",
                               !.row = [id |-> goc.row.id, triple |-> as_triple(goc.row)]])

\* add, line 179
AddContextRef(i) ==
    /\ calls[i].op = "add" /\ calls[i].pc = "context_ref"
    /\ LET cr == _get_or_create_context_ref(Cur(i), calls[i].context)
       IN  Commit(i, cr.S, [calls[i] EXCEPT !.pc = "check", !.context_ref = cr.ref])

\* add, line 180: context_ref not in statement.context_refs.all()
AddCheck(i) ==
    /\ calls[i].op = "add" /\ calls[i].pc = "check"
    /\ LET refs == HeldRefs(Cur(i), calls[i].table, calls[i].row)
       IN  IF calls[i].context_ref \in RelatedContexts(Cur(i), refs)
               THEN Commit(i, Cur(i), Done(calls[i], "ok"))
               ELSE Commit(i, Cur(i), [calls[i] EXCEPT !.pc = "select"])

\* add, line 181, statement.context_refs.add(context_ref): Django first
\* selects the memberships the statement has among the given ones
AddSelect(i) ==
    /\ calls[i].op = "add" /\ calls[i].pc = "select"
    /\ LET refs == HeldRefs(Cur(i), calls[i].table, calls[i].row)
       IN  IF calls[i].context_ref \in refs
               THEN Commit(i, Cur(i), Done(calls[i], "ok"))
               ELSE Commit(i, Cur(i), [calls[i] EXCEPT !.pc = "insert"])

\* add, line 181: and then inserts the ones it did not find; a membership
\* another instance has inserted since violates the uniqueness of
\* (statement, context_ref), and add does not catch the IntegrityError.
\* For a statement another instance has deleted, the membership row refers
\* to no statement: a database that enforces the foreign key raises
\* IntegrityError, one that does not (sqlite3) keeps a row no query joins
AddInsert(i) ==
    /\ calls[i].op = "add" /\ calls[i].pc = "insert"
    /\ LET table == calls[i].table
           held == Held(Cur(i), table, calls[i].row)
           linked == { [r EXCEPT !.context_refs = @ \cup {calls[i].context_ref}] :
                         r \in held }
       IN  IF held = {}
               THEN \/ Commit(i, Cur(i), Done(calls[i], "IntegrityError"))
                    \/ Commit(i, Cur(i), Done(calls[i], "ok"))
           ELSE IF calls[i].context_ref \in HeldRefs(Cur(i), table, calls[i].row)
               THEN Commit(i, Cur(i), Done(calls[i], "IntegrityError"))
               ELSE Commit(i, SetTable(Cur(i), table,
                                       (Table(Cur(i), table) \ held) \cup linked),
                           Done(calls[i], "ok"))

NextAdd ==
    \E i \in Instances :
        \/ AddGet(i)
        \/ AddCreate(i)
        \/ AddContextRef(i)
        \/ AddCheck(i)
        \/ AddSelect(i)
        \/ AddInsert(i)
        \/ Return(i)

SpecAdd == InitConcurrent /\ [][NextAdd]_vars

\* one instance adds while the other removes from context c1
Adder == 2
Remover == 1
RemoveContexts == {c1}

\* remove, lines 187-196: the context, and the statements the filtered query
\* set selects; a full triple has one query set
RemoveQuery(i) ==
    /\ calls[i] = Idle
    /\ \E pattern \in ConcurrentTriples, context \in RemoveContexts :
           LET g == _get_context_ref(Cur(i), context)
               query_sets == _get_query_sets_for_object(pattern[3])
               filtered == _filter_query_sets(g.S, query_sets, pattern, g.ref)
               c == [op |-> "remove", pc |-> "loop", pattern |-> pattern,
                     context |-> context, context_ref |-> g.ref,
                     todo |-> UNION { { [table |-> query_sets[k], id |-> r.id,
                                         triple |-> as_triple(r)] :
                                          r \in filtered[k] } :
                                      k \in DOMAIN query_sets },
                     stmt |-> None, outcome |-> "pending"]
           IN  IF g.raised = "DoesNotExist"
                   THEN Commit(i, Cur(i), Done(c, "ok"))
                   ELSE Commit(i, g.S, c)

\* remove, line 197: stmt.context_refs.remove(context_ref) for the next
\* statement of the loop, or the end of the loop
RemoveMembership(i) ==
    /\ calls[i].op = "remove" /\ calls[i].pc = "loop"
    /\ IF calls[i].todo = {}
           THEN Commit(i, Cur(i), Done(calls[i], "ok"))
           ELSE \E stmt \in calls[i].todo :
                    LET held == Held(Cur(i), stmt.table, stmt)
                        unlinked == { [r EXCEPT !.context_refs = @ \ {calls[i].context_ref}] :
                                        r \in held }
                    IN  Commit(i, SetTable(Cur(i), stmt.table,
                                           (Table(Cur(i), stmt.table) \ held) \cup unlinked),
                               [calls[i] EXCEPT
                                   !.todo = @ \ {stmt},
                                   !.stmt = stmt,
                                   !.pc = IF calls[i].context_ref = GLOBAL_CONTEXT
                                              THEN "delete" ELSE "count"])

\* remove, line 198: not stmt.context_refs.count()
RemoveCount(i) ==
    /\ calls[i].op = "remove" /\ calls[i].pc = "count"
    /\ LET stmt == calls[i].stmt
           refs == HeldRefs(Cur(i), stmt.table, stmt)
       IN  Commit(i, Cur(i),
                  [calls[i] EXCEPT
                      !.pc = IF RelatedContexts(Cur(i), refs) = {}
                                 THEN "delete" ELSE "loop"])

\* remove, line 199: stmt.delete(), of the row and of its memberships
RemoveDelete(i) ==
    /\ calls[i].op = "remove" /\ calls[i].pc = "delete"
    /\ LET stmt == calls[i].stmt
           held == Held(Cur(i), stmt.table, stmt)
       IN  Commit(i, SetTable(Cur(i), stmt.table, Table(Cur(i), stmt.table) \ held),
                  [calls[i] EXCEPT !.pc = "loop"])

NextRemoveAdd ==
    \/ AddGet(Adder)
    \/ AddCreate(Adder)
    \/ AddContextRef(Adder)
    \/ AddCheck(Adder)
    \/ AddSelect(Adder)
    \/ AddInsert(Adder)
    \/ RemoveQuery(Remover)
    \/ RemoveMembership(Remover)
    \/ RemoveCount(Remover)
    \/ RemoveDelete(Remover)
    \/ \E i \in Instances : Return(i)

SpecRemoveAdd == InitConcurrent /\ [][NextRemoveAdd]_vars

-----------------------------------------------------------------------------
(* Claims *)

\* the statement rows of the two tables, without their memberships
Rows(S) ==
    { <<"Statement", r.id, as_triple(r)>> : r \in S.Statement }
        \cup { <<"LiteralStatement", r.id, as_triple(r)>> : r \in S.LiteralStatement }

\* the context memberships: the rows of the two many-to-many tables
Memberships(S) ==
    UNION { { <<"Statement", r.id, as_triple(r), c>> : c \in r.context_refs } :
              r \in S.Statement }
        \cup UNION { { <<"LiteralStatement", r.id, as_triple(r), c>> :
                         c \in r.context_refs } : r \in S.LiteralStatement }

\* C1: idempotent add.  In every reachable state, for every triple t and
\* every context c (None or named): when add(t, c) has returned, a second
\* add(t, c) returns and leaves len(None), len(c), the statement rows, the
\* context memberships and the contexts as the first call left them.
C1_IdempotentAdd ==
    \A st \in Stores, t \in AddTriples, c \in ContextArgs :
        LET r1 == add(Cur(st), t, c, FALSE)
            r2 == add(r1.S, t, c, FALSE)
        IN  r1.outcome = "ok" =>
                /\ r2.outcome = "ok"
                /\ Rows(r2.S) = Rows(r1.S)
                /\ Memberships(r2.S) = Memberships(r1.S)
                /\ r2.S.ContextRef = r1.S.ContextRef
                /\ __len__(r2.S, None).value = __len__(r1.S, None).value
                /\ __len__(r2.S, c).value = __len__(r1.S, c).value

\* adds have left a row that is in a named context and in the default
\* context: adding it again to either is the second add of the claim
C1_Witness ==
    /\ \E r \in Statement \cup LiteralStatement :
           /\ GLOBAL_CONTEXT \in r.context_refs
           /\ r.context_refs \cap NamedContexts # {}

\* a triple equals a pattern on every bound field: terms are equal when they
\* are of the same kind and of the same content
Matches(t, pattern) ==
    \A i \in 1..3 : pattern[i] # None => t[i] = pattern[i]

\* the triples of the items a call yielded
Yielded(r) == { item[1] : item \in r.value }

\* the stored triples: the triples of the rows of the two tables
Stored(S) == { as_triple(r) : r \in AllRows(S) }

\* C2: pattern completeness, store-wide.  In every reachable state and for
\* every pattern (each of s, p, o bound or None), triples(pattern, None)
\* yields exactly the stored triples that equal the pattern on every bound
\* field: none is missing, none differs from the pattern on a bound field.
C2_PatternCompleteness ==
    \A st \in Stores, pattern \in Patterns :
        LET r == triples(Cur(st), pattern, None)
        IN  /\ r.outcome = "ok"
            /\ Yielded(r) = { t \in Stored(Cur(st)) : Matches(t, pattern) }

\* the triples that are members of a context: the rows with a membership in it
MembersOf(S, c) == { as_triple(r) : r \in { q \in AllRows(S) : c \in q.context_refs } }

\* C3: context-scoped matching.  In every reachable state, for every named
\* context c that exists and every pattern, triples(pattern, c) yields
\* exactly the triples that are members of c and equal the pattern on every
\* bound field.
C3_ContextScopedMatching ==
    \A st \in Stores, pattern \in Patterns, c \in NamedContexts :
        c \in ContextRef =>
            LET r == triples(Cur(st), pattern, c)
            IN  /\ r.outcome = "ok"
                /\ Yielded(r) = { t \in MembersOf(Cur(st), c) : Matches(t, pattern) }

\* the result of adding t to the default context, to c1 and to c2
AddToThree(S, t) ==
    add(add(add(S, t, None, FALSE).S, t, c1, FALSE).S, t, c2, FALSE)

\* C6: count under multi-context.  In every reachable state, adding a triple
\* that is not stored to the default context, to c1 and to c2 increases
\* len(None) by exactly 1, and len(c1) and len(c2) each by 1.
C6_CountMultiContext ==
    \A st \in Stores, t \in AddTriples :
        t \notin Stored(Cur(st)) =>
            LET S == Cur(st)
                r == AddToThree(S, t)
            IN  /\ r.outcome = "ok"
                /\ __len__(r.S, None).value = Cardinality(AllRows(S)) + 1
                /\ __len__(r.S, c1).value =
                       Cardinality({ q \in AllRows(S) : c1 \in q.context_refs }) + 1
                /\ __len__(r.S, c2).value =
                       Cardinality({ q \in AllRows(S) : c2 \in q.context_refs }) + 1

\* the context argument that names a context reference
ContextArgOf(d) == IF d = GLOBAL_CONTEXT THEN None ELSE d

\* C4: context isolation.  In every reachable state, for every pattern and
\* every named context c that exists, remove(pattern, c) returns and every
\* matching triple of c that is also a member of another context d (named or
\* default) is still yielded by triples for d and by the store-wide triples;
\* after remove((None, None, None), c), len(c) is 0 and len(None) has dropped
\* by exactly the number of triples whose only membership was c.
C4_ContextIsolation ==
    \A st \in Stores, pattern \in Patterns, c \in NamedContexts :
        c \in ContextRef =>
            LET S == Cur(st)
                r == remove(S, pattern, c)
            IN  /\ r.outcome = "ok"
                /\ \A q \in AllRows(S), d \in (NamedContexts \cup {GLOBAL_CONTEXT}) \ {c} :
                       ( /\ Matches(as_triple(q), pattern)
                         /\ c \in q.context_refs
                         /\ d \in q.context_refs ) =>
                           /\ as_triple(q) \in
                                  Yielded(triples(r.S, Wildcard, ContextArgOf(d)))
                           /\ as_triple(q) \in Yielded(triples(r.S, Wildcard, None))
                /\ pattern = Wildcard =>
                       /\ __len__(r.S, c).outcome = "ok"
                       /\ __len__(r.S, c).value = 0
                       /\ __len__(r.S, None).value =
                              Cardinality(AllRows(S))
                                  - Cardinality({ q \in AllRows(S) : q.context_refs = {c} })

C7_RemoveMissingContextNoOp ==
    \A st \in Stores, pattern \in Patterns, c \in NamedContexts :
        c \notin ContextRef =>
            LET r == remove(Cur(st), pattern, c)
            IN  /\ r.outcome = "ok"
                /\ Rows(r.S) = Rows(Cur(st))
                /\ Memberships(r.S) = Memberships(Cur(st))
                /\ r.S.ContextRef = ContextRef

\* C8: not-found on a read path.  In every reachable state, for every named
\* context c with no ContextRef row, triples(pattern, c) yields no item and
\* len(c) returns 0, and neither raises.
C8_ReadMissingContextEmpty ==
    \A st \in Stores, pattern \in Patterns, c \in NamedContexts :
        c \notin ContextRef =>
            /\ triples(Cur(st), pattern, c).outcome = "ok"
            /\ triples(Cur(st), pattern, c).value = {}
            /\ __len__(Cur(st), c).outcome = "ok"
            /\ __len__(Cur(st), c).value = 0

\* C9: contexts(triple).  In every reachable state and for every triple,
\* contexts(triple) enumerates exactly the contexts that hold a statement
\* matching the triple.
C9_ContextsOfTriple ==
    \A st \in Stores, t \in AddTriples :
        contexts(Cur(st), t).value =
            { c \in ContextRef :
                \E q \in AllRows(Cur(st)) :
                    Matches(as_triple(q), t) /\ c \in q.context_refs }

\* C10: lazy context creation.  In every reachable state, when add(t, c) with
\* a named context c has returned, contexts() enumerates c; and triples, len
\* and remove leave the enumeration as it was.
C10_LazyContextCreation ==
    \A st \in Stores, c \in NamedContexts :
        /\ \A t \in AddTriples :
               LET r == add(Cur(st), t, c, FALSE)
               IN  r.outcome = "ok" => c \in contexts(r.S, NoTriple).value
        /\ \A pattern \in Patterns :
               /\ contexts(triples(Cur(st), pattern, c).S, NoTriple).value = ContextRef
               /\ contexts(remove(Cur(st), pattern, c).S, NoTriple).value = ContextRef
        /\ contexts(__len__(Cur(st), c).S, NoTriple).value = ContextRef

\* C11: remove_context.  In every reachable state, for every named context
\* c that exists and holds a triple, after remove((None, None, None), c) the
\* context c is not enumerated by contexts().
C11_RemoveContextForgets ==
    \A st \in Stores, c \in NamedContexts :
        (c \in ContextRef /\ \E q \in AllRows(Cur(st)) : c \in q.context_refs) =>
            LET r == remove(Cur(st), Wildcard, c)
            IN  /\ r.outcome = "ok"
                /\ c \notin contexts(r.S, NoTriple).value

\* C12: the default context reference exists in every reachable state,
\* whatever adds, removes, destroys and binds came before, and contexts()
\* enumerates it.
C12_DefaultContextExists ==
    /\ GLOBAL_CONTEXT \in ContextRef
    /\ \A st \in Stores : GLOBAL_CONTEXT \in contexts(Cur(st), NoTriple).value

\* destroy() has deleted a named context an instance still caches, a bind has
\* changed the namespace table, and rows are stored again
C12_Witness ==
    \E st \in Stores :
        /\ context_cache[st] \ ContextRef # {}
        /\ Namespace # DEFAULT_NAMESPACES
        /\ Statement # {}
        /\ GLOBAL_CONTEXT \in ContextRef

\* C13: in every reachable state, when destroy() has returned, len(None) is
\* 0, triples((None, None, None), None) yields nothing, neither table holds a
\* row and contexts() enumerates no context other than the default one.
C13_DestroyClears ==
    \A st \in Stores :
        LET r == destroy(Cur(st))
        IN  /\ r.outcome = "ok"
            /\ __len__(r.S, None).outcome = "ok"
            /\ __len__(r.S, None).value = 0
            /\ triples(r.S, Wildcard, None).outcome = "ok"
            /\ triples(r.S, Wildcard, None).value = {}
            /\ r.S.Statement = {} /\ r.S.LiteralStatement = {}
            /\ contexts(r.S, NoTriple).value \subseteq {GLOBAL_CONTEXT}

\* both tables hold a row, both named contexts exist, and destroy() clears
\* them
C13_Witness ==
    \E st \in Stores :
        /\ Statement # {} /\ LiteralStatement # {}
        /\ NamedContexts \subseteq ContextRef
        /\ AllRows(destroy(Cur(st)).S) = {}
        /\ destroy(Cur(st)).S.ContextRef = {GLOBAL_CONTEXT}

\* C14: open is idempotent and always succeeds.  In every reachable state
\* and for either value of create, open returns VALID_STORE, a second open
\* returns VALID_STORE, an open after destroy() returns VALID_STORE, and
\* open leaves the tables, the contexts, the namespaces and the cache as
\* they were.
C14_OpenIdempotent ==
    \A st \in Stores, create \in BOOLEAN, again \in BOOLEAN :
        LET r1 == open(Cur(st), None, create)
            r2 == open(r1.S, None, again)
            d == destroy(Cur(st))
            r3 == open(d.S, None, create)
        IN  /\ r1.outcome = "ok" /\ r1.value = VALID_STORE /\ r1.S = Cur(st)
            /\ r2.outcome = "ok" /\ r2.value = VALID_STORE /\ r2.S = Cur(st)
            /\ r3.outcome = "ok" /\ r3.value = VALID_STORE /\ r3.S = d.S

\* rows are stored in a named context, and opening again without create
\* succeeds and changes nothing
C14_Witness ==
    \E st \in Stores :
        /\ \E q \in Statement \cup LiteralStatement :
               q.context_refs \cap NamedContexts # {}
        /\ open(Cur(st), None, FALSE).value = VALID_STORE
        /\ open(Cur(st), None, FALSE).S = Cur(st)

\* C15: destroy() moves the store toward Unopened.  In every reachable
\* state, an open(create=False) issued after destroy() reports a result
\* other than VALID_STORE.
C15_DestroyUnopens ==
    \A st \in Stores :
        open(destroy(Cur(st)).S, None, FALSE).value # VALID_STORE

\* C15 as amended: destroy() leaves the store open.  In every reachable
\* state, an open(create=False) issued after destroy() returns VALID_STORE
\* and changes nothing, and an instance constructed after destroy() is
\* opened.
C15_DestroyLeavesOpen ==
    \A st \in Stores :
        LET d == destroy(Cur(st))
            o == open(d.S, None, FALSE)
            i == __init__(d.S, None, Str(DEFAULT_STORE))
        IN  /\ o.outcome = "ok" /\ o.value = VALID_STORE /\ o.S = d.S
            /\ i.outcome = "ok" /\ i.value.opened = VALID_STORE

\* destroy() has emptied the store (the instance still caches a context
\* that is gone) and open(create=False) returns VALID_STORE
C15_Witness ==
    \E st \in Stores :
        /\ context_cache[st] \ ContextRef # {}
        /\ Statement \cup LiteralStatement = {}
        /\ open(Cur(st), None, FALSE).value = VALID_STORE

\* C16: single store.  In every reachable state, DjangoStore(identifier)
\* with an identifier other than 'Default Store' raises ValueError and makes
\* no instance; with the default identifier or None the instance's
\* identifier is 'Default Store'.
C16_SingleStore ==
    \A st \in Stores, identifier \in StoreIdentifiers :
        LET r == __init__(Cur(st), None, identifier)
        IN  IF identifier \in {Str(DEFAULT_STORE), None}
                THEN r.outcome = "ok" /\ r.value.identifier = DEFAULT_STORE
                ELSE r.outcome = "ValueError" /\ r.S = Cur(st)

\* C16 as amended: DjangoStore(identifier) with a non-empty identifier other
\* than 'Default Store' raises ValueError and makes no instance; with the
\* default identifier, None or the empty string the instance's identifier is
\* 'Default Store' and its cache is empty.
C16_SingleStoreNonEmpty ==
    \A st \in Stores, identifier \in StoreIdentifiers :
        LET r == __init__(Cur(st), None, identifier)
        IN  IF identifier \in {Str(DEFAULT_STORE), None, Str("")}
                THEN /\ r.outcome = "ok"
                     /\ r.value.identifier = DEFAULT_STORE
                     /\ r.S.cache = {}
                ELSE r.outcome = "ValueError" /\ r.S = Cur(st)

\* the instance in use has cached a context: a constructor call with another
\* identifier raises and leaves it, one with the default identifier gives an
\* instance with an empty cache
C16_Witness ==
    \E st \in Stores :
        /\ context_cache[st] # {}
        /\ __init__(Cur(st), None, Str("HelloWorld")).outcome = "ValueError"
        /\ __init__(Cur(st), None, Str(DEFAULT_STORE)).S.cache = {}

\* C17: quoted add.  In every reachable state, for every triple and every
\* context argument, add(t, c, quoted=True) raises and leaves the statement
\* rows, the memberships, the contexts and the cache as they were.
C17_QuotedAddRejected ==
    \A st \in Stores, t \in AddTriples \cup MalformedTriples, c \in ContextArgs :
        LET r == add(Cur(st), t, c, TRUE)
        IN  /\ r.outcome = "AssertionError"
            /\ r.S = Cur(st)

\* rows are stored, and a triple that is not stored and a named context that
\* does not exist would both be created by an add that is not quoted; the
\* quoted add creates neither
C17_Witness ==
    \E st \in Stores, t \in AddTriples, c \in NamedContexts :
        /\ Statement # {}
        /\ t \notin Stored(Cur(st))
        /\ c \notin ContextRef \cup context_cache[st]
        /\ add(Cur(st), t, c, FALSE).outcome = "ok"
        /\ c \in add(Cur(st), t, c, FALSE).S.ContextRef
        /\ add(Cur(st), t, c, TRUE).S = Cur(st)

\* C18: malformed add.  In every reachable state, for every triple with an
\* unbound component or with a literal as subject or predicate and every
\* context argument, add raises and leaves the statement rows, the
\* memberships, the contexts and the cache as they were.
C18_MalformedAddRejected ==
    \A st \in Stores, t \in MalformedTriples, c \in ContextArgs :
        LET r == add(Cur(st), t, c, FALSE)
        IN  /\ r.outcome # "ok"
            /\ r.S = Cur(st)

\* the prefixes and the uris of the fixed bindings
FixedPrefixes == { d[1] : d \in DEFAULT_NAMESPACES }
FixedURIs == { d[2] : d \in DEFAULT_NAMESPACES }

\* C19: namespace immutability.  In every reachable state, a bind whose
\* prefix is a fixed prefix or whose uri is a fixed uri returns and leaves
\* the namespace table exactly as it was; and the table holds the fixed
\* bindings and no other row with a fixed prefix or a fixed uri.
C19_FixedNamespaces ==
    /\ \A st \in Stores, p \in NamespacePrefixes, ns \in NamespaceURIs :
           (p \in FixedPrefixes \/ unicode(ns) \in FixedURIs) =>
               /\ bind(Cur(st), p, ns).outcome = "ok"
               /\ bind(Cur(st), p, ns).S = Cur(st)
    /\ DEFAULT_NAMESPACES \subseteq Namespace
    /\ \A n \in Namespace :
           (n[1] \in FixedPrefixes \/ n[2] \in FixedURIs) => n \in DEFAULT_NAMESPACES

\* other prefixes are bound, and binding a fixed uri to one of them, or
\* another uri to a fixed prefix, changes nothing
C19_Witness ==
    \E st \in Stores :
        /\ \E n \in Namespace : n[1] = "ns1"
        /\ bind(Cur(st), "ns1", URIRef("http://www.w3.org/XML/1998/namespace")).S = Cur(st)
        /\ bind(Cur(st), "rdf", URIRef("http://example.com/a")).S = Cur(st)

\* C20: namespace replace-on-conflict.  In every reachable state, for every
\* prefix p and uri u that are not fixed, bind(p, u) returns; after it
\* namespace(p) is u and prefix(u) is p; for every prior binding (p, u0) with
\* u0 other than u, prefix(u0) is not found; and for every prior binding
\* (p0, u) with p0 other than p, namespace(p0) is not found.
C20_ReplaceOnConflict ==
    \A st \in Stores, p \in NamespacePrefixes, ns \in NamespaceURIs :
        (p \notin FixedPrefixes /\ unicode(ns) \notin FixedURIs) =>
            LET r == bind(Cur(st), p, ns)
            IN  /\ r.outcome = "ok"
                /\ namespace(r.S, p).value = Str(unicode(ns))
                /\ prefix(r.S, ns).value = Str(p)
                /\ \A n \in Namespace :
                       /\ (n[1] = p /\ n[2] # unicode(ns)) =>
                              /\ prefix(r.S, URIRef(n[2])).outcome = "ok"
                              /\ prefix(r.S, URIRef(n[2])).value = None
                       /\ (n[2] = unicode(ns) /\ n[1] # p) =>
                              /\ namespace(r.S, n[1]).outcome = "ok"
                              /\ namespace(r.S, n[1]).value = None

\* ns1 and ns2 are bound to different uris, and binding ns1 to the uri of
\* ns2 replaces both bindings by the new pair
C20_Witness ==
    \E st \in Stores :
        /\ <<"ns1", "http://example.com/a">> \in Namespace
        /\ <<"ns2", "http://example.com/b">> \in Namespace
        /\ bind(Cur(st), "ns1", URIRef("http://example.com/b")).S.Namespace
               = DEFAULT_NAMESPACES \cup {<<"ns1", "http://example.com/b">>}

\* C21: namespace uniqueness.  In every state reachable by binds, no two
\* rows of the namespace table share a prefix and no two share a uri.
C21_NamespaceUnique ==
    \A n1 \in Namespace, n2 \in Namespace :
        (n1[1] = n2[1] \/ n1[2] = n2[2]) => n1 = n2

\* every free prefix is bound, after binds that replaced earlier bindings
C21_Witness ==
    /\ \A p \in NamespacePrefixes \ FixedPrefixes : \E n \in Namespace : n[1] = p
    /\ <<"ns1", "http://example.com/d">> \in Namespace
    /\ <<"ns4", "http://example.com/a">> \in Namespace

AllPrefixes == NamespacePrefixes \cup FixedPrefixes
AllURIs == NamespaceURIs \cup { URIRef(u) : u \in FixedURIs }

\* C23: the namespace lookups agree.  In every reachable state, for every
\* prefix p and uri u: namespace(p) is u iff prefix(u) is p iff namespaces()
\* yields (p, u); neither lookup raises; a prefix or uri that is not bound
\* gives None; and after bind(p, u) with p and u not fixed, all three hold
\* for (p, u).
C23_LookupsAgree ==
    \A st \in Stores, p \in AllPrefixes, ns \in AllURIs :
        LET S == Cur(st)
            r == bind(S, p, ns)
        IN  /\ namespace(S, p).outcome = "ok"
            /\ prefix(S, ns).outcome = "ok"
            /\ (namespace(S, p).value = Str(unicode(ns)))
                   <=> (prefix(S, ns).value = Str(p))
            /\ (prefix(S, ns).value = Str(p))
                   <=> (<<p, unicode(ns)>> \in namespaces(S).value)
            /\ (\A n \in Namespace : n[1] # p) => namespace(S, p).value = None
            /\ (\A n \in Namespace : n[2] # unicode(ns)) => prefix(S, ns).value = None
            /\ (p \notin FixedPrefixes /\ unicode(ns) \notin FixedURIs) =>
                   /\ namespace(r.S, p).value = Str(unicode(ns))
                   /\ prefix(r.S, ns).value = Str(p)
                   /\ <<p, unicode(ns)>> \in namespaces(r.S).value

\* two free prefixes are bound and a third is not: the lookups give the
\* bound pairs and None
C23_Witness ==
    \E st \in Stores :
        /\ namespace(Cur(st), "ns1").value = Str("http://example.com/b")
        /\ prefix(Cur(st), URIRef("http://example.com/a")).value = Str("ns2")
        /\ namespace(Cur(st), "ns3").value = None
        /\ prefix(Cur(st), URIRef("http://example.com/c")).value = None

\* a term of the other kind and the same content
KindSwap(x) ==
    IF x.kind = "URIRef" THEN BNode(x.value)
    ELSE IF x.kind = "BNode" THEN URIRef(x.value)
    ELSE x

\* the triples that differ from t in the kind of the subject or of the object
Twins(t) ==
    { <<KindSwap(t[1]), t[2], t[3]>>, <<t[1], t[2], KindSwap(t[3])>> } \ {t}

\* C24: terms of different kinds are distinct.  In every reachable state,
\* for every stored triple t and every triple t2 that differs from t only in
\* the kind (URI or blank node) of its subject or of its object and is not
\* stored: add(t2) returns, both are stored afterwards, len(None) has grown
\* by 1, a query with t2 as pattern does not yield t and a remove with t2 as
\* pattern does not delete t.
C24_KindsDistinct ==
    \A st \in Stores : \A t \in Stored(Cur(st)) :
        \A t2 \in Twins(t) \ Stored(Cur(st)) :
            LET r == add(Cur(st), t2, None, FALSE)
            IN  /\ r.outcome = "ok"
                /\ {t, t2} \subseteq Stored(r.S)
                /\ __len__(r.S, None).value = Cardinality(AllRows(Cur(st))) + 1
                /\ t \notin Yielded(triples(r.S, t2, None))
                /\ t \in Stored(remove(r.S, t2, None).S)

\* the collection of an object's kind
KindTable(o) == IF o.kind = "Literal" THEN "LiteralStatement" ELSE "Statement"
OtherTable(table) == IF table = "Statement" THEN "LiteralStatement" ELSE "Statement"

\* C25: storage partition by object kind.  In every reachable state, every
\* row of LiteralStatement has a literal object and every row of Statement a
\* URI or blank-node object; and for every triple with a bound object,
\* the literal of the empty string included, the query sets of the object
\* are the one collection of its kind, and add returns and leaves the other
\* collection as it was.
C25_StoragePartition ==
    /\ \A q \in Statement : q.object.kind \in {"URIRef", "BNode"}
    /\ \A q \in LiteralStatement : q.object.kind = "Literal"
    /\ \A st \in Stores, t \in AddTriples \cup {EmptyLiteralTriple} :
           LET r == add(Cur(st), t, None, FALSE)
           IN  /\ _get_query_sets_for_object(t[3]) = <<KindTable(t[3])>>
               /\ r.outcome = "ok"
               /\ Table(r.S, OtherTable(KindTable(t[3])))
                      = Table(Cur(st), OtherTable(KindTable(t[3])))

\* C30: triples echoes the query context.  In every reachable state, for
\* every pattern and every context argument (None or named), the second
\* component of every item triples(pattern, context) yields is the context
\* argument, whatever contexts the row is stored under.
C30_TriplesEchoContext ==
    \A st \in Stores, pattern \in Patterns, c \in ContextArgs :
        \A item \in triples(Cur(st), pattern, c).value : item[2] = c

\* a row is stored under c1 and c2 only: the store-wide query yields it with
\* None, the query of c1 with c1
C30_Witness ==
    \E st \in Stores, q \in Statement \cup LiteralStatement :
        /\ q.context_refs = {c1, c2}
        /\ <<as_triple(q), None>> \in triples(Cur(st), Wildcard, None).value
        /\ <<as_triple(q), c1>> \in triples(Cur(st), Wildcard, c1).value

\* C26: literals survive storage.  For every literal (any lexical value,
\* the separator included; language absent, empty or present; datatype
\* absent, empty or present), when its row has been saved and loaded again,
\* the load has not raised and the literal loaded equals the literal saved
\* in lexical value, language and datatype.
C26_LiteralRoundTrip ==
    literal_field.loaded # None =>
        /\ literal_field.loaded.outcome = "ok"
        /\ literal_field.loaded.value = literal_field.value

\* the table a bind leaves when nothing interleaves with it
BoundAtOnce(before, p, uri) ==
    { n \in before : n[1] # p /\ n[2] # uri } \cup {<<p, uri>>}

\* C27: bind is atomic.  In every state two interleaving instances reach, no
\* two rows of the namespace table have the same prefix; and while a bind
\* that replaces a binding is in progress and no other instance has written
\* since it began, namespaces() of any other instance yields the table as it
\* was before the bind or as the bind leaves it.
C27_BindAtomic ==
    /\ \A n1 \in Namespace, n2 \in Namespace : n1[1] = n2[1] => n1 = n2
    /\ \A i \in DOMAIN calls, j \in DOMAIN calls :
           (i # j /\ BindInProgress(calls[i]) /\ calls[i].alone) =>
               namespaces(Cur(j)).value \in
                   { calls[i].before,
                     BoundAtOnce(calls[i].before, calls[i].prefix, calls[i].uri) }

\* C28: concurrent bind never surfaces a uniqueness violation.  In every
\* state two interleaving instances reach, every bind call that has ended
\* has returned normally.
C28_BindNeverRaises ==
    \A i \in DOMAIN calls :
        (calls[i].op = "bind" /\ calls[i].pc = "done") => calls[i].outcome = "ok"

\* C29: concurrent duplicate add is a no-op, not an error.  In every state
\* two interleaving instances reach, every add(t, c) that has ended has
\* returned normally, and the database then holds exactly one statement row
\* for t, with a membership in c.
C29_ConcurrentAddNoOp ==
    \A i \in DOMAIN calls :
        (calls[i].op = "add" /\ calls[i].pc = "done") =>
            /\ calls[i].outcome = "ok"
            /\ Cardinality({ r \in AllRows(Cur(i)) : as_triple(r) = calls[i].t }) = 1
            /\ \A r \in AllRows(Cur(i)) :
                   as_triple(r) = calls[i].t =>
                       InContext(r, IF calls[i].context = None
                                        THEN GLOBAL_CONTEXT ELSE calls[i].context)

\* what the database holds: statement rows with their memberships, context
\* rows, namespace bindings
StoredData(S) == <<S.Statement, S.LiteralStatement, S.ContextRef, S.Namespace>>

\* C31: reads are free of side effects on stored data.  In every reachable
\* state, for the wildcard, every full triple and every object pattern,
\* every context argument (a context with no row included), every prefix
\* and every uri: triples, len, contexts, prefix,
\* namespace and namespaces leave the statement rows, the memberships, the
\* context rows and the namespace bindings as they were.
C31_ReadsLeaveData ==
    \A st \in Stores :
        LET S == Cur(st)
        IN  /\ \A pattern \in RemovePatterns, c \in ContextArgs :
                   StoredData(triples(S, pattern, c).S) = StoredData(S)
            /\ \A c \in ContextArgs : StoredData(__len__(S, c).S) = StoredData(S)
            /\ \A t \in {NoTriple} \cup AddTriples :
                   StoredData(contexts(S, t).S) = StoredData(S)
            /\ \A ns \in BindNamespaces : StoredData(prefix(S, ns).S) = StoredData(S)
            /\ \A p \in BindPrefixes : StoredData(namespace(S, p).S) = StoredData(S)
            /\ StoredData(namespaces(S).S) = StoredData(S)

\* the store holds rows; a read of c1 finds its row and fills the cache, a
\* read of c2 finds no context row
C31_Witness ==
    \E st \in Stores :
        /\ triples(Cur(st), Wildcard, c1).value # {}
        /\ triples(Cur(st), Wildcard, c1).S.cache # Cur(st).cache
        /\ triples(Cur(st), Wildcard, c2).outcome = "DoesNotExist"
        /\ __len__(Cur(st), c2).outcome = "DoesNotExist"

C33_AddNotLost ==
    \A j \in DOMAIN calls :
        ( /\ calls[j].op = "add" /\ calls[j].pc = "done"
          /\ calls[j].outcome = "ok" /\ calls[j].context = c2 ) =>
            /\ \E r \in AllRows(Cur(j)) :
                   as_triple(r) = calls[j].t /\ InContext(r, c2)
            /\ <<calls[j].t, c2>> \in triples(Cur(j), calls[j].t, c2).value

\* C34: no orphan statements.  In every state add, remove and destroy on one
\* instance reach, every statement row of either table is a member of at
\* least one context: stmt.context_refs.count(), the count remove deletes
\* a row by, is not 0.
C34_NoOrphans ==
    \A st \in Stores : \A r \in AllRows(Cur(st)) :
        RelatedContexts(Cur(st), r.context_refs) # {}

C36_CacheCoherent ==
    \A st \in DOMAIN context_cache : context_cache[st] \subseteq ContextRef

\* C37: statement operations and namespace operations do not interfere.  In
\* every reachable state, add, remove and destroy, for every argument, leave
\* the namespace bindings as they were; bind, for every prefix and uri,
\* leaves the statement rows, the memberships and the context rows as they
\* were.
C37_NoInterference ==
    \A st \in Stores :
        LET S == Cur(st)
        IN  /\ \A t \in AddTriples \cup MalformedTriples \cup {EmptyLiteralTriple},
                  c \in ContextArgs, quoted \in BOOLEAN :
                   add(S, t, c, quoted).S.Namespace = S.Namespace
            /\ \A pattern \in RemovePatterns, c \in ContextArgs :
                   remove(S, pattern, c).S.Namespace = S.Namespace
            /\ destroy(S).S.Namespace = S.Namespace
            /\ \A p \in BindPrefixes, ns \in BindNamespaces :
                   LET bound == bind(S, p, ns).S
                   IN  /\ bound.Statement = S.Statement
                       /\ bound.LiteralStatement = S.LiteralStatement
                       /\ bound.ContextRef = S.ContextRef

\* the store holds rows in a named context and a binding a caller made
\* with bind: destroy empties the tables and keeps the binding
C37_Witness ==
    \E st \in Stores :
        /\ AllRows(Cur(st)) # {}
        /\ ContextRef # {GLOBAL_CONTEXT}
        /\ \E p \in BindPrefixes, ns \in BindNamespaces :
               /\ <<p, unicode(ns)>> \in Namespace \ InitialNamespaces
               /\ <<p, unicode(ns)>> \in destroy(Cur(st)).S.Namespace
        /\ AllRows(destroy(Cur(st)).S) = {}

\* C38: the type column stays in sync.  After any sequence of assignments
\* to a URI field: when the value last assigned and not rejected is None,
\* the type column holds no value; otherwise reading the field gives a term
\* of the kind and content of that value.
C38_TypeInSync ==
    \A name \in DOMAIN uri_field :
        LET obj == uri_field[name]
        IN  /\ obj.assigned = None => obj.type = None
            /\ obj.assigned \notin {Unassigned, None} =>
                   /\ __get__(obj).outcome = "ok"
                   /\ __get__(obj).value = obj.assigned

====
